---- MODULE Spec2Model ----
(***************************************************************************)
(* Model of src/main.js of stac-viewer: the LayerList raster cursor, the   *)
(* variable selector that replaces it, the unguarded asynchronous          *)
(* metadata fetches that publish to the page, and the colorbar legend.     *)
(*                                                                         *)
(* Conventions                                                             *)
(*  - an asset href / url is a positive natural (the position of the asset *)
(*    in the enumeration of item.assets); Undefined stands for the JS      *)
(*    value undefined where a url or an asset key is expected;             *)
(*  - JS numbers are integers, NaN is a reserved integer outside the range *)
(*    of every computed value;                                             *)
(*  - objects created with `new LayerList` live in `heap`, keyed by an     *)
(*    object identity; an object no longer referenced by currentLayer or   *)
(*    by the map is collected and its identity may be reused;              *)
(*  - the <select id="varSelect"> of the page starts without options.      *)
(***************************************************************************)
EXTENDS Integers, Sequences, FiniteSets, Bags, TLC

\* ---------------------------------------------------------------- bounds
MaxAssets   == 3      \* assets in the STAC item
MaxInFlight == 2      \* metadata fetches pending at the same time
Window      == MaxAssets + 2   \* operations remembered of a LayerList on its own

\* ------------------------------------------------------- JS value domain
Null      == 0                 \* currentLayer = null
Undefined == 0                 \* undefined url (urls[index] out of range)
NoKey     == "undefined"       \* asset without a key field
NaN       == 0 - 1000          \* result of x % 0

Keys == {"tephra_col_mass", "xyz"}

\* a % n of JavaScript: truncated remainder, NaN for a zero divisor
JsRem(a, n) ==
    IF a = NaN \/ n = NaN \/ n = 0 THEN NaN
    ELSE IF a >= 0 THEN a % n ELSE 0 - ((0 - a) % n)

\* a + b of JavaScript on numbers
JsAdd(a, b) == IF a = NaN \/ b = NaN THEN NaN ELSE a + b

\* arr[i] of a JavaScript array (0-based), undefined out of range
ArrayGet(arr, i) == IF i \in 0..(Len(arr) - 1) THEN arr[i + 1] ELSE Undefined

\* ---------------------------------------------------------------- state
VARIABLES
    item,          \* the document behind urlItem: sequence of assets
    phase,         \* "fetching" | "loaded" | "failed" | "unit"
    groupedAssets, \* closure variable of the change listener
    varSelect,     \* [options, value] of the <select>
    heap,          \* LayerList objects by identity
    currentLayer,  \* identity of the current LayerList, or Null
    mapLayers,     \* layers of the ol Map, in order
    inflight,      \* metadata fetches not yet settled (a bag)
    display,       \* the four text fields written by showAssetInfo
    legend,        \* colorbar title, labels and swatches
    hist,          \* last operations on the current LayerList
    ev             \* the kind of the last event handled

vars == <<item, phase, groupedAssets, varSelect, heap, currentLayer,
          mapLayers, inflight, display, legend, hist, ev>>


\* ------------------------------------------------------------ LayerList
\* a loop that shows the current layer and hides none
SetVisibleLoopNeverHides(c) ==
    [c EXCEPT !.visible =
        [i \in 1..Len(c.visible) |-> c.visible[i] \/ (i - 1 = c.currentRaster)]]

\* the layer.setVisible loop of showCurrent
SetVisibleLoop(c) ==
    [c EXCEPT !.visible = [i \in 1..Len(c.visible) |-> (i - 1 = c.currentRaster)]]

\* a call that always asks for the first url
FetchOfFirstUrl(c) ==
    [url         |-> ArrayGet(c.urls, 0),
     currentStep |-> c.currentRaster,
     totalSteps  |-> c.length]

\* the call getAssetMetaData(url,index,this.length) of showCurrent
FetchOf(c) ==
    [url         |-> ArrayGet(c.urls, c.currentRaster),
     currentStep |-> c.currentRaster,
     totalSteps  |-> c.length]

\* a showCurrent that also recomputes length from the current index
showCurrentRelength(c) ==
    [obj   |-> [SetVisibleLoop(c) EXCEPT !.length = c.currentRaster + 1],
     fetch |-> FetchOf(c)]

\* LayerList.showCurrent: new object state and the fetch it issues
showCurrent(c) == [obj |-> SetVisibleLoop(c), fetch |-> FetchOf(c)]

\* showNext that stops at the last layer
showNextClamped(c) ==
    showCurrent([c EXCEPT !.currentRaster =
                    IF @ + 1 >= c.length THEN c.length - 1 ELSE @ + 1])

\* showNext that moves the index and issues the fetch without the
\* setVisible loop
showNextNoRefresh(c) ==
    LET d == [c EXCEPT !.currentRaster = JsRem(JsAdd(c.currentRaster, 1), c.length)]
    IN [obj |-> d, fetch |-> FetchOf(d)]

\* LayerList.showNext
showNext(c) ==
    showCurrent([c EXCEPT !.currentRaster = JsRem(JsAdd(c.currentRaster, 1), c.length)])

\* showPrevious without the + length
showPreviousNoLength(c) ==
    showCurrent([c EXCEPT !.currentRaster =
                    JsRem(JsAdd(c.currentRaster, 0 - 1), c.length)])

\* showPrevious that stops at the first layer
showPreviousClamped(c) ==
    showCurrent([c EXCEPT !.currentRaster = IF @ = 0 THEN 0 ELSE @ - 1])

\* LayerList.showPrevious
showPrevious(c) ==
    showCurrent([c EXCEPT !.currentRaster =
                    JsRem(JsAdd(JsAdd(c.currentRaster, 0 - 1), c.length), c.length)])

\* a constructor that starts at the second layer
LayerListFromOne(layers, urls) ==
    showCurrent([variable      |-> Null,
                 urls          |-> urls,
                 layers        |-> layers,
                 length        |-> Len(layers),
                 currentRaster |-> 1,
                 visible       |-> [i \in 1..Len(layers) |-> FALSE]])

\* new LayerList({layers: ..., urls: ...}); each layer is known by the url
\* of its source and by its style, and was built with visible: false
\* (`visible` holds the flag of each layer)
LayerList(layers, urls) ==
    showCurrent([variable      |-> Null,
                 urls          |-> urls,
                 layers        |-> layers,
                 length        |-> Len(layers),
                 currentRaster |-> 0,
                 visible       |-> [i \in 1..Len(layers) |-> FALSE]])

\* ------------------------------------------------------ asset grouping
\* names every object inherits from Object.prototype: groupedAssets[name]
\* is a function (or the prototype itself) before anything is stored
PrototypeKeys == {"constructor", "toString", "valueOf", "hasOwnProperty", "__proto__"}

\* the number a property name stands for when it is an array index
\* (a canonical decimal string), -1 for any other name
ArrayIndexOf(k) == CASE k = "7" -> 7 [] k = "10" -> 10 [] OTHER -> 0 - 1

\* the order in which for-in enumerates the own properties of an object
\* after property k is created: array indices first, in ascending numeric
\* order, then the other names in order of creation
OwnKeysInsert(order, k) ==
    IF ArrayIndexOf(k) < 0 THEN Append(order, k)
    ELSE LET before == SelectSeq(order, LAMBDA o :
                          ArrayIndexOf(o) >= 0 /\ ArrayIndexOf(o) < ArrayIndexOf(k))
             after  == SelectSeq(order, LAMBDA o :
                          ~(ArrayIndexOf(o) >= 0 /\ ArrayIndexOf(o) < ArrayIndexOf(k)))
         IN before \o <<k>> \o after

\* !groupedAssets[variable] is false for a name that was never stored but
\* is inherited: no array is created and .push is not a function
InheritedTruthy(variable) == variable \in PrototypeKeys

\* getAssetsFromItem: the assets that carry a key, grouped by key; `order`
\* is the for-in order of the keys of groupedAssets; `threw` when the
\* loop ended in a TypeError
RECURSIVE GroupLoop(_, _, _)
GroupLoop(assets, n, g) ==
    IF n > Len(assets) THEN g
    ELSE LET a == assets[n]
             variable == a.key
         IN IF variable = NoKey THEN GroupLoop(assets, n + 1, g)
            ELSE IF variable \in DOMAIN g.groups
                 THEN GroupLoop(assets, n + 1,
                        [g EXCEPT !.groups[variable] = Append(@, a)])
            ELSE IF InheritedTruthy(variable)
                 THEN [g EXCEPT !.threw = TRUE]
                 ELSE GroupLoop(assets, n + 1,
                        [threw  |-> FALSE,
                         order  |-> OwnKeysInsert(g.order, variable),
                         groups |-> [k \in DOMAIN g.groups \cup {variable} |->
                                       IF k = variable THEN <<a>> ELSE g.groups[k]]])

EmptyGroups == [threw |-> FALSE, order |-> <<>>, groups |-> [k \in {} |-> <<>>]]

getAssetsFromItem(assets) == GroupLoop(assets, 1, EmptyGroups)

\* the option loop of createVariableSelector: one <option> per enumerated
\* key, appended in order; the value of a <select> without a selected
\* option is the first option, or "" when there is none
AppendOptions(sel, g) ==
    LET opts == sel.options \o g.order
    IN [options |-> opts,
        value   |-> IF sel.options # <<>> THEN sel.value
                    ELSE IF opts = <<>> THEN "" ELSE opts[1]]

\* ------------------------------------------------- colour classification
\* colormap({colormap, nshades, format: 'rgba', alpha: 0.6}): nshades
\* colours sampled from the named ramp (alpha in tenths)
colormap(cmap, nshades) ==
    [i \in 1..nshades |-> [ramp |-> cmap, shade |-> i - 1, of |-> nshades, alpha |-> 6]]

\* getColorStops that pairs the breakpoints with the ramp reversed
getColorStopsReversed(cmap, levels) ==
    LET steps  == Len(levels)
        colors == colormap(cmap, steps)
    IN [j \in 1..(steps * 2) |->
          IF j % 2 = 1 THEN levels[(j + 1) \div 2] ELSE colors[steps + 1 - (j \div 2)]]

\* getColorStops: the flat array value, colour, value, colour, ...
getColorStops(cmap, levels) ==
    LET steps  == Len(levels)
        colors == colormap(cmap, steps)
    IN [j \in 1..(steps * 2) |->
          IF j % 2 = 1 THEN levels[(j + 1) \div 2] ELSE colors[j \div 2]]

RECURSIVE SeqMin(_)
SeqMin(s) ==
    IF Len(s) = 1 THEN s[1]
    ELSE LET m == SeqMin(Tail(s)) IN IF s[1] < m THEN s[1] ELSE m

\* a switch without default: an unrecognized name falls into the last case
ColorbarCaseNoDefault(variable) ==
    CASE variable = "tephra_col_mass" ->
           [levels |-> <<1, 20, 30, 40, 50, 60, 70, 80>>,
            cmap   |-> "RdBu",
            label  |-> "Tephra column mass [g/m<sup>2</sup>]"]
      [] variable = "SO2_col_mass" ->
           [levels |-> <<10, 50, 100, 150, 200, 250, 300, 350, 400>>,
            cmap   |-> "RdBu",
            label  |-> "SO2 column mass [DU]"]
      [] OTHER ->
           [levels |-> <<40000, 45000, 50000, 55000, 60000, 65000, 70000,
                         75000, 80000, 85000, 90000>>,
            cmap   |-> "viridis",
            label  |-> "Tephra cloud top height [m]"]

\* the switch of createColorbar; levels are in tenths (0.1 is 1, 2 is 20)
ColorbarCase(variable) ==
    CASE variable = "tephra_col_mass" ->
           [levels |-> <<1, 20, 30, 40, 50, 60, 70, 80>>,
            cmap   |-> "RdBu",
            label  |-> "Tephra column mass [g/m<sup>2</sup>]"]
      [] variable = "SO2_col_mass" ->
           [levels |-> <<10, 50, 100, 150, 200, 250, 300, 350, 400>>,
            cmap   |-> "RdBu",
            label  |-> "SO2 column mass [DU]"]
      [] variable = "tephra_cloud_top" ->
           [levels |-> <<40000, 45000, 50000, 55000, 60000, 65000, 70000,
                         75000, 80000, 85000, 90000>>,
            cmap   |-> "viridis",
            label  |-> "Tephra cloud top height [m]"]
      [] OTHER ->
           [levels |-> <<10, 20, 30, 40, 50, 60, 70, 80, 90, 100>>,
            cmap   |-> "viridis",
            label  |-> "Undefined"]

\* drawColorBar without the two clearing statements
drawColorBarNoClear(stops, label) ==
    LET steps == Len(stops) \div 2
    IN [title    |-> label,
        labels   |-> legend.labels \o [i \in 1..steps |-> stops[(i - 1) * 2 + 1]],
        swatches |-> legend.swatches \o [i \in 1..steps |-> stops[(i - 1) * 2 + 2]]]

\* drawColorBar: title replaced, labels and canvas cleared, then one
\* swatch and one label per stop
drawColorBar(stops, label) ==
    LET steps == Len(stops) \div 2
    IN [title    |-> label,
        labels   |-> [i \in 1..steps |-> stops[(i - 1) * 2 + 1]],
        swatches |-> [i \in 1..steps |-> stops[(i - 1) * 2 + 2]]]

\* createColorbar: the style it returns and the legend it draws
createColorbar(variable) ==
    LET c     == ColorbarCase(variable)
        stops == getColorStops(c.cmap, c.levels)
    IN [style  |-> [minVal |-> SeqMin(c.levels), stops |-> stops],
        levels |-> c.levels,
        cmap   |-> c.cmap,
        label  |-> c.label,
        legend |-> drawColorBar(stops, c.label)]

\* ------------------------------------------------------ asset metadata
RECURSIVE Digits(_)
Digits(n) == IF n < 10 THEN <<n>> ELSE Append(Digits(n \div 10), n % 10)

\* the GDAL tags of the raster behind a url (remote data): label, time and
\* created are named after the url, the forecast step is 6 hours per asset
GDALMetadata(url) ==
    [label |-> url, step |-> Digits(6 * url), time |-> url, created |-> url]

\* String.prototype.padStart(n, ch)
RECURSIVE padStart(_, _, _)
padStart(s, n, ch) == IF Len(s) >= n THEN s ELSE padStart(<<ch>> \o s, n, ch)

\* getAssetMetaData, when every await succeeds: the four display strings
\* (title = label and padded hours, step = position and total)
getAssetMetaData(f) ==
    LET metadataFields == GDALMetadata(f.url)
        forecastHours  == padStart(metadataFields.step, 3, 0)
    IN [title   |-> <<metadataFields.label>> \o forecastHours,
        valid   |-> <<metadataFields.time>>,
        created |-> <<metadataFields.created>>,
        step    |-> <<JsAdd(f.currentStep, 1), f.totalSteps>>]

\* showAssetInfo that drops a result whose step is not the one the current
\* LayerList shows
showAssetInfoFenced(old, assetMetaData) ==
    IF currentLayer # Null
       /\ assetMetaData.step =
             <<JsAdd(heap[currentLayer].currentRaster, 1), heap[currentLayer].length>>
    THEN assetMetaData
    ELSE old

\* showAssetInfo: the four fields are overwritten, whatever they held
showAssetInfo(old, assetMetaData) ==
    [title   |-> assetMetaData.title,
     valid   |-> assetMetaData.valid,
     created |-> assetMetaData.created,
     step    |-> assetMetaData.step]

\* a rejection handler that blanks the four fields
OnRejectedClears(old) ==
    [title |-> <<>>, valid |-> <<>>, created |-> <<>>, step |-> <<>>]

\* .then(showAssetInfo) has no rejection handler: a rejected fetch leaves
\* the page as it is
OnRejected(old) == old

BlankDisplay == [title |-> <<>>, valid |-> <<>>, created |-> <<>>, step |-> <<>>]
BlankLegend  == [title |-> "", labels |-> <<>>, swatches |-> <<>>]

\* ----------------------------------------------------------- the page
\* the documents results.json may hold: up to MaxAssets assets, each with
\* its own href and with a key of Keys or without key
Items ==
    UNION { { [i \in 1..n |-> [href |-> i, key |-> ks[i]]] :
                ks \in [1..n -> Keys \cup {NoKey}] } : n \in 0..MaxAssets }

BaseLayers == <<[kind |-> "tile", ref |-> Null]>>

\* an identity for a new object: the smallest one not in use
NewId(h) ==
    CHOOSE n \in 1..(Cardinality(DOMAIN h) + 1) :
        n \notin DOMAIN h /\ \A m \in 1..(n - 1) : m \in DOMAIN h

\* the objects still referenced by currentLayer or by the map
Collect(h, cur, ml) ==
    [id \in {i \in DOMAIN h : i = cur \/ \E j \in 1..Len(ml) : ml[j].ref = i} |-> h[id]]

\* map.removeLayer(layer)
removeLayer(ml, id) == SelectSeq(ml, LAMBDA l : ~(l.kind = "group" /\ l.ref = id))

\* map.addLayer(layer)
addLayer(ml, l) == Append(ml, l)

\* a change listener that leaves the old LayerList on the map
DetachNothing(ml, cur) == ml

\* the body of the change listener before createRasterLayer
DetachCurrent(ml, cur) == IF cur # Null THEN removeLayer(ml, cur) ELSE ml

\* a createRasterLayer whose LayerList starts at the index of the one it
\* replaces
createRasterLayerKeepsIndex(g, variable) ==
    LET cb == createColorbar(variable)
    IN IF variable \notin DOMAIN g.groups
       THEN [threw |-> TRUE, legend |-> cb.legend]
       ELSE LET assetList == g.groups[variable]
                layers    == [i \in 1..Len(assetList) |->
                                 [source |-> assetList[i].href, style |-> cb.style]]
                urls      == [i \in 1..Len(assetList) |-> assetList[i].href]
                start     == IF currentLayer # Null
                             THEN heap[currentLayer].currentRaster ELSE 0
            IN [threw |-> FALSE, legend |-> cb.legend,
                made  |-> showCurrent([LayerList(layers, urls).obj
                                           EXCEPT !.currentRaster = start])]

\* createRasterLayer: the legend is drawn by createColorbar first; then
\* groupedAssets[variable].map throws when the variable has no group,
\* otherwise one layer and one url per asset of the group, in order
createRasterLayer(g, variable) ==
    LET cb == createColorbar(variable)
    IN IF variable \notin DOMAIN g.groups
       THEN [threw |-> TRUE, legend |-> cb.legend]
       ELSE LET assetList == g.groups[variable]
                layers    == [i \in 1..Len(assetList) |->
                                 [source |-> assetList[i].href, style |-> cb.style]]
                urls      == [i \in 1..Len(assetList) |-> assetList[i].href]
            IN [threw |-> FALSE, legend |-> cb.legend,
                made  |-> LayerList(layers, urls)]

VisibleSet(c) == {i - 1 : i \in {j \in 1..Len(c.visible) : c.visible[j]}}

HistEntry(op, c) == [op |-> op, idx |-> c.currentRaster, vis |-> VisibleSet(c)]

\* the operations hist keeps: the last Window for a LayerList driven on its
\* own, the last two on the page
Kept == IF phase = "unit" THEN Window ELSE 2

Remember(h, e) ==
    LET all == Append(h, e)
    IN IF Len(all) > Kept THEN Tail(all) ELSE all

Init ==
    /\ item \in Items
    /\ phase = "fetching"
    /\ groupedAssets = EmptyGroups
    /\ varSelect = [options |-> <<>>, value |-> ""]
    /\ heap = [id \in {} |-> Null]
    /\ currentLayer = Null
    /\ mapLayers = BaseLayers
    /\ inflight = EmptyBag
    /\ display = BlankDisplay
    /\ legend = BlankLegend
    /\ hist = <<>>
    /\ ev = "load"

\* getItemFromJSON rejects: both promise chains of initMap reject
ItemFetchFails ==
    /\ phase = "fetching"
    /\ phase' = "failed"
    /\ ev' = "itemFailed"
    /\ UNCHANGED <<item, groupedAssets, varSelect, heap, currentLayer,
                   mapLayers, inflight, display, legend, hist>>

\* an installation that drops the fetches still pending
InstallCancelling(ml, r) ==
    LET id == NewId(heap)
        h  == [i \in DOMAIN heap \cup {id} |-> IF i = id THEN r.made.obj ELSE heap[i]]
        m  == addLayer(ml, [kind |-> "group", ref |-> id])
    IN /\ currentLayer' = id
       /\ mapLayers' = m
       /\ heap' = Collect(h, id, m)
       /\ inflight' = SetToBag({r.made.fetch})
       /\ hist' = <<HistEntry("new", r.made.obj)>>

\* the new LayerList becomes currentLayer and is added to the map
Install(ml, r) ==
    LET id == NewId(heap)
        h  == [i \in DOMAIN heap \cup {id} |-> IF i = id THEN r.made.obj ELSE heap[i]]
        m  == addLayer(ml, [kind |-> "group", ref |-> id])
    IN /\ currentLayer' = id
       /\ mapLayers' = m
       /\ heap' = Collect(h, id, m)
       /\ inflight' = inflight (+) SetToBag({r.made.fetch})
       /\ hist' = <<HistEntry("new", r.made.obj)>>

\* getItemFromJSON resolves: the bbox layer is added, then the callbacks of
\* initMap group the assets and, unless that threw, fill the selector,
\* register the change listener and build the first LayerList
ItemLoaded ==
    /\ phase = "fetching"
    /\ BagCardinality(inflight) < MaxInFlight
    /\ LET g   == getAssetsFromItem(item)
           sel == AppendOptions(varSelect, g)
           ml  == addLayer(mapLayers, [kind |-> "vector", ref |-> Null])
           r   == createRasterLayer(g, sel.value)
       IN /\ phase' = "loaded"
          /\ IF g.threw
             THEN /\ mapLayers' = ml
                  /\ UNCHANGED <<groupedAssets, varSelect, legend, heap,
                                 currentLayer, inflight, hist>>
             ELSE /\ groupedAssets' = g
                  /\ varSelect' = sel
                  /\ legend' = r.legend
                  /\ IF r.threw
                     THEN /\ mapLayers' = ml
                          /\ UNCHANGED <<heap, currentLayer, inflight, hist>>
                     ELSE Install(ml, r)
    /\ ev' = "itemLoaded"
    /\ UNCHANGED <<item, display>>

\* the user selects another option: the change listener
Change(v) ==
    /\ phase = "loaded"
    /\ BagCardinality(inflight) < MaxInFlight
    /\ \E i \in 1..Len(varSelect.options) : varSelect.options[i] = v
    /\ v # varSelect.value
    /\ varSelect' = [varSelect EXCEPT !.value = v]
    /\ LET ml == DetachCurrent(mapLayers, currentLayer)
           r  == createRasterLayer(groupedAssets, v)
       IN /\ legend' = r.legend
          /\ IF r.threw
             THEN /\ mapLayers' = ml
                  /\ heap' = Collect(heap, currentLayer, ml)
                  /\ UNCHANGED <<currentLayer, inflight, hist>>
             ELSE Install(ml, r)
    /\ ev' = "change"
    /\ UNCHANGED <<item, phase, groupedAssets, display>>

\* a click listener without the test of currentLayer
ClickUnguarded(op) ==
    /\ IF currentLayer = Null
       THEN /\ inflight' = inflight (+) SetToBag({[url |-> Undefined, currentStep |-> 0,
                                                  totalSteps |-> 0]})
            /\ UNCHANGED <<heap, hist>>
       ELSE /\ BagCardinality(inflight) < MaxInFlight
            /\ LET r == IF op = "next" THEN showNext(heap[currentLayer])
                                       ELSE showPrevious(heap[currentLayer])
               IN /\ heap' = [heap EXCEPT ![currentLayer] = r.obj]
                  /\ inflight' = inflight (+) SetToBag({r.fetch})
                  /\ hist' = Remember(hist, HistEntry(op, r.obj))
    /\ ev' = op
    /\ UNCHANGED <<item, phase, groupedAssets, varSelect, currentLayer,
                   mapLayers, display, legend>>

\* a click listener: nothing happens while currentLayer is null
Click(op) ==
    /\ IF currentLayer = Null
       THEN UNCHANGED <<heap, inflight, hist>>
       ELSE /\ BagCardinality(inflight) < MaxInFlight
            /\ LET r == IF op = "next" THEN showNext(heap[currentLayer])
                                       ELSE showPrevious(heap[currentLayer])
               IN /\ heap' = [heap EXCEPT ![currentLayer] = r.obj]
                  /\ inflight' = inflight (+) SetToBag({r.fetch})
                  /\ hist' = Remember(hist, HistEntry(op, r.obj))
    /\ ev' = op
    /\ UNCHANGED <<item, phase, groupedAssets, varSelect, currentLayer,
                   mapLayers, display, legend>>

ClickNext == Click("next")

ClickPrev == Click("prev")

\* a pending getAssetMetaData resolves, whichever was issued first: its
\* result goes to showAssetInfo (no raster answers for an undefined url,
\* such a fetch can only reject)
FetchResolves(f) ==
    /\ BagIn(f, inflight)
    /\ f.url # Undefined
    /\ display' = showAssetInfo(display, getAssetMetaData(f))
    /\ inflight' = inflight (-) SetToBag({f})
    /\ ev' = "resolve"
    /\ UNCHANGED <<item, phase, groupedAssets, varSelect, heap, currentLayer,
                   mapLayers, legend, hist>>

\* a pending getAssetMetaData rejects (raster unreachable, tag missing)
FetchRejects(f) ==
    /\ BagIn(f, inflight)
    /\ display' = OnRejected(display)
    /\ inflight' = inflight (-) SetToBag({f})
    /\ ev' = "reject"
    /\ UNCHANGED <<item, phase, groupedAssets, varSelect, heap, currentLayer,
                   mapLayers, legend, hist>>

Next ==
    \/ ItemFetchFails
    \/ ItemLoaded
    \/ \E v \in Keys : Change(v)
    \/ ClickNext
    \/ ClickPrev
    \/ \E f \in BagToSet(inflight) : FetchResolves(f)
    \/ \E f \in BagToSet(inflight) : FetchRejects(f)

Spec == Init /\ [][Next]_vars

\* --------------------------------------------- LayerList on its own
\* a LayerList built directly on n layers and n urls, n >= 0, then driven
\* by showNext / showPrevious and by the settling of its fetches
InitCursor ==
    /\ item = <<>>
    /\ phase = "unit"
    /\ groupedAssets = EmptyGroups
    /\ varSelect = [options |-> <<>>, value |-> ""]
    /\ heap = [id \in {} |-> Null]
    /\ currentLayer = Null
    /\ mapLayers = BaseLayers
    /\ inflight = EmptyBag
    /\ display = BlankDisplay
    /\ legend = BlankLegend
    /\ hist = <<>>
    /\ ev = "load"

\* currentLayer = new LayerList({layers, urls}) on n layers and n urls
Construct(n) ==
    /\ phase = "unit"
    /\ currentLayer = Null
    /\ LET r == LayerList([i \in 1..n |-> [source |-> i, style |-> <<>>]],
                          [i \in 1..n |-> i])
       IN /\ heap' = [id \in {1} |-> r.obj]
          /\ currentLayer' = 1
          /\ inflight' = inflight (+) SetToBag({r.fetch})
          /\ hist' = <<HistEntry("new", r.obj)>>
    /\ ev' = "new"
    /\ UNCHANGED <<item, phase, groupedAssets, varSelect, mapLayers, display, legend>>

NextCursor ==
    \/ \E n \in 0..MaxAssets : Construct(n)
    \/ ClickNext
    \/ ClickPrev
    \/ \E f \in BagToSet(inflight) : FetchResolves(f)
    \/ \E f \in BagToSet(inflight) : FetchRejects(f)

SpecCursor == InitCursor /\ [][NextCursor]_vars

\* --------------------------------------------- grouping on its own
\* the keys an asset may carry: those of Keys and a name inherited from
\* Object.prototype
GroupKeys == Keys \cup {"constructor"}

GroupItems ==
    UNION { { [i \in 1..n |-> [href |-> i, key |-> ks[i]]] :
                ks \in [1..n -> GroupKeys \cup {NoKey}] } : n \in 0..MaxAssets }

\* the page before results.json arrives, for any of these documents
InitGroup ==
    /\ item \in GroupItems
    /\ phase = "fetching"
    /\ groupedAssets = EmptyGroups
    /\ varSelect = [options |-> <<>>, value |-> ""]
    /\ heap = [id \in {} |-> Null]
    /\ currentLayer = Null
    /\ mapLayers = BaseLayers
    /\ inflight = EmptyBag
    /\ display = BlankDisplay
    /\ legend = BlankLegend
    /\ hist = <<>>
    /\ ev = "load"

NextGroup ==
    \/ ItemFetchFails
    \/ ItemLoaded

SpecGroup == InitGroup /\ [][NextGroup]_vars

\* the same with keys that are array-index names: those of Keys, "7", "10"
OrderKeys == Keys \cup {"7", "10"}

OrderItems ==
    UNION { { [i \in 1..n |-> [href |-> i, key |-> ks[i]]] :
                ks \in [1..n -> OrderKeys \cup {NoKey}] } : n \in 0..MaxAssets }

InitOrder ==
    /\ item \in OrderItems
    /\ phase = "fetching"
    /\ groupedAssets = EmptyGroups
    /\ varSelect = [options |-> <<>>, value |-> ""]
    /\ heap = [id \in {} |-> Null]
    /\ currentLayer = Null
    /\ mapLayers = BaseLayers
    /\ inflight = EmptyBag
    /\ display = BlankDisplay
    /\ legend = BlankLegend
    /\ hist = <<>>
    /\ ev = "load"

SpecOrder == InitOrder /\ [][NextGroup]_vars

\* ----------------------------------------- classification on its own
\* the page for documents whose keys are the three names createColorbar
\* recognizes and one it does not; the user may switch variable
ColorKeys == {"tephra_col_mass", "SO2_col_mass", "tephra_cloud_top", "xyz"}

ColorItems ==
    UNION { { [i \in 1..n |-> [href |-> i, key |-> ks[i]]] :
                ks \in [1..n -> ColorKeys \cup {NoKey}] } : n \in 0..MaxAssets }

InitColor ==
    /\ item \in ColorItems
    /\ phase = "fetching"
    /\ groupedAssets = EmptyGroups
    /\ varSelect = [options |-> <<>>, value |-> ""]
    /\ heap = [id \in {} |-> Null]
    /\ currentLayer = Null
    /\ mapLayers = BaseLayers
    /\ inflight = EmptyBag
    /\ display = BlankDisplay
    /\ legend = BlankLegend
    /\ hist = <<>>
    /\ ev = "load"

NextColor ==
    \/ ItemFetchFails
    \/ ItemLoaded
    \/ \E v \in ColorKeys : Change(v)

SpecColor == InitColor /\ [][NextColor]_vars

\* ================================================================ claims
HasCursor == currentLayer # Null

Cur == heap[currentLayer]

Ops == [k \in 1..Len(hist) |-> hist[k].op]

\* the last n operations of hist are all op, and the state before them is
\* still remembered
LastAll(n, op) ==
    /\ Len(hist) >= n + 1
    /\ \A k \in (Len(hist) - n + 1)..Len(hist) : hist[k].op = op

\* C1: in every LayerList of length >= 1, layer i is visible exactly when
\* i is currentRaster, so at most one layer is visible and it is the
\* current one.
C1_OneVisibleAtCurrent ==
    \A id \in DOMAIN heap :
        LET c == heap[id]
        IN c.length >= 1 =>
             /\ \A i \in 1..Len(c.visible) : c.visible[i] <=> (i - 1 = c.currentRaster)
             /\ Cardinality(VisibleSet(c)) <= 1
             /\ VisibleSet(c) = {c.currentRaster}

\* a LayerList of three layers that has gone forward to its last layer and
\* back, and now shows its second layer only
C1_Witness ==
    /\ HasCursor
    /\ Cur.length = 3
    /\ Ops = <<"next", "prev">>
    /\ hist[1].vis = {2}
    /\ Cur.currentRaster = 1
    /\ Cur.visible = <<FALSE, TRUE, FALSE>>

\* C2: in every LayerList of length >= 1, currentRaster is an integer of
\* 0 .. length-1.
C2_IndexInRange ==
    \A id \in DOMAIN heap :
        heap[id].length >= 1 => heap[id].currentRaster \in 0..(heap[id].length - 1)

\* showPrevious has just wrapped from the first layer to the last
C2_Witness ==
    /\ HasCursor
    /\ Cur.length >= 2
    /\ Len(hist) >= 2
    /\ hist[Len(hist)].op = "prev"
    /\ hist[Len(hist) - 1].idx = 0
    /\ Cur.currentRaster = Cur.length - 1

\* C3: every remembered showNext took the index i to (i + 1) mod length and
\* every remembered showPrevious took it to (i - 1 + length) mod length.
C3_StepIsModular ==
    HasCursor /\ Cur.length >= 1 =>
        \A k \in 2..Len(hist) :
            LET i == hist[k - 1].idx
            IN /\ i \in 0..(Cur.length - 1)
               /\ hist[k].op = "next" => hist[k].idx = (i + 1) % Cur.length
               /\ hist[k].op = "prev" => hist[k].idx = (i - 1 + Cur.length) % Cur.length

\* hist holds a forward wrap (last to first) and a backward wrap (first to
\* last) of a LayerList of at least two layers
C3_Witness ==
    /\ HasCursor
    /\ Cur.length >= 2
    /\ \E k \in 2..Len(hist) :
          hist[k].op = "next" /\ hist[k - 1].idx = Cur.length - 1 /\ hist[k].idx = 0
    /\ \E k \in 2..Len(hist) :
          hist[k].op = "prev" /\ hist[k - 1].idx = 0 /\ hist[k].idx = Cur.length - 1

\* C4: a fetch that resolves is published whatever the LayerList shows by
\* then: the step in which it resolves leaves exactly its four texts on
\* the page, so nothing keeps the text of a stale index from replacing a
\* newer one.
C4_PublishedUnconditionally ==
    [][ev' = "resolve" =>
          \E f \in BagToSet(inflight) :
              /\ inflight' = inflight (-) SetToBag({f})
              /\ display' = getAssetMetaData(f)]_vars

\* two fetches were issued, for index 0 and then for index 1; the one for
\* index 0 resolved last: no fetch is pending and the page shows step 1
\* while the LayerList is at index 1 (step 2)
C4_Witness ==
    /\ HasCursor
    /\ Ops = <<"new", "next">>
    /\ Cur.length >= 2
    /\ Cur.currentRaster = 1
    /\ inflight = EmptyBag
    /\ ev = "resolve"
    /\ display.step = <<1, Cur.length>>
    /\ display.title[1] = Cur.urls[1]
    /\ display.step # <<Cur.currentRaster + 1, Cur.length>>

\* C5: the only LayerList on the map is currentLayer, it is there once,
\* and its urls are those of the selected variable.
C5_OnlyCurrentOnMap ==
    /\ \A j \in 1..Len(mapLayers) :
          mapLayers[j].kind = "group" =>
              /\ mapLayers[j].ref = currentLayer
              /\ \A u \in 1..Len(heap[mapLayers[j].ref].urls) :
                    item[heap[mapLayers[j].ref].urls[u]].key = varSelect.value
    /\ Cardinality({j \in 1..Len(mapLayers) : mapLayers[j].kind = "group"}) <= 1
    /\ DOMAIN heap \subseteq {currentLayer}

\* the user has switched to the second variable and back to the first:
\* the third LayerList is the one on the map
C5_Witness ==
    /\ ev = "change"
    /\ HasCursor
    /\ \E j \in 1..Len(mapLayers) : mapLayers[j].ref = currentLayer
    /\ Len(varSelect.options) = 2
    /\ varSelect.value = varSelect.options[1]
\* C6: no LayerList of length 0 exists, and no showNext / showPrevious
\* leaves a value that is not an index (the construction on zero layers
\* was refused).
C6_ZeroLayersRefused ==
    \A id \in DOMAIN heap :
        /\ heap[id].length >= 1
        /\ heap[id].currentRaster # NaN

\* C7 as stated: on three layers the index starts at 0, is 1 with one
\* layer visible after one showNext, and is 1 after two more showNext.
C7_AsStated ==
    HasCursor /\ Cur.length = 3 =>
        /\ Ops = <<"new">> => Cur.currentRaster = 0
        /\ Ops = <<"new", "next">> =>
              Cur.currentRaster = 1 /\ Cardinality(VisibleSet(Cur)) = 1
        /\ Ops = <<"new", "next", "next", "next">> => Cur.currentRaster = 1

\* C7 amended: on three layers the index starts at 0 with layer 0 visible,
\* is 1 with exactly one layer visible after one showNext, is 2 after one
\* more and 0 after two more showNext.
C7_ThreeLayerWalk ==
    HasCursor /\ Cur.length = 3 =>
        /\ Ops = <<"new">> => Cur.currentRaster = 0 /\ VisibleSet(Cur) = {0}
        /\ Ops = <<"new", "next">> =>
              Cur.currentRaster = 1 /\ Cardinality(VisibleSet(Cur)) = 1
        /\ Ops = <<"new", "next", "next">> => Cur.currentRaster = 2
        /\ Ops = <<"new", "next", "next", "next">> => Cur.currentRaster = 0

\* a LayerList of three layers after exactly three showNext
C7_Witness ==
    /\ HasCursor
    /\ Cur.length = 3
    /\ Ops = <<"new", "next", "next", "next">>
    /\ [k \in 1..4 |-> hist[k].idx] = <<0, 1, 2, 0>>

\* C8: after length showNext in a row the index is the one before them,
\* and the same after length showPrevious in a row.
C8_FullCycle ==
    HasCursor /\ Cur.length >= 1 =>
        /\ LastAll(Cur.length, "next") =>
              Cur.currentRaster = hist[Len(hist) - Cur.length].idx
        /\ LastAll(Cur.length, "prev") =>
              Cur.currentRaster = hist[Len(hist) - Cur.length].idx

\* three showPrevious in a row on three layers, started away from layer 0
C8_Witness ==
    /\ HasCursor
    /\ Cur.length = 3
    /\ LastAll(3, "prev")
    /\ hist[Len(hist) - 3].idx = 1
    /\ Cur.currentRaster = 1

\* C9: showNext then showPrevious, or showPrevious then showNext, ends at
\* the index it started from with the same single layer visible.
C9_Inverse ==
    HasCursor /\ Cur.length >= 1 /\ Len(hist) >= 3 =>
        LET n == Len(hist)
        IN (\/ hist[n - 1].op = "next" /\ hist[n].op = "prev"
            \/ hist[n - 1].op = "prev" /\ hist[n].op = "next") =>
               /\ hist[n].idx = hist[n - 2].idx
               /\ hist[n].vis = hist[n - 2].vis
               /\ VisibleSet(Cur) = {hist[n - 2].idx}

\* showPrevious then showNext across the wrap, from layer 0 of at least
\* two layers
C9_Witness ==
    /\ HasCursor
    /\ Cur.length >= 2
    /\ Len(hist) >= 3
    /\ hist[Len(hist) - 2].idx = 0
    /\ hist[Len(hist) - 1].op = "prev"
    /\ hist[Len(hist) - 1].idx = Cur.length - 1
    /\ hist[Len(hist)].op = "next"
    /\ Cur.currentRaster = 0

\* C10: the step in which a fetch rejects changes neither the four display
\* fields nor the legend, nor any LayerList (index, visibility) nor which
\* one is current or on the map.
C10_RejectionPublishesNothing ==
    [][ev' = "reject" =>
          /\ display' = display
          /\ legend' = legend
          /\ heap' = heap
          /\ currentLayer' = currentLayer
          /\ mapLayers' = mapLayers]_vars

\* two fetches were issued, for index 0 and then for index 1; the first
\* was published, the second has just rejected: the page still shows step
\* 1 while the LayerList is at index 1
C10_Witness ==
    /\ ev = "reject"
    /\ HasCursor
    /\ Ops = <<"new", "next">>
    /\ Cur.currentRaster = 1
    /\ inflight = EmptyBag
    /\ display # BlankDisplay
    /\ display.step = <<1, Cur.length>>

\* the assets of the item that carry key k, in the order of the item
AssetsOf(k) == SelectSeq(item, LAMBDA a : a.key = k)

\* the keys of the first n assets, each once, in the order first seen
RECURSIVE FirstSeen(_)
FirstSeen(n) ==
    IF n = 0 THEN <<>>
    ELSE LET before == FirstSeen(n - 1)
             k      == item[n].key
         IN IF k = NoKey \/ \E j \in 1..Len(before) : before[j] = k
            THEN before ELSE Append(before, k)

Occurrences(seq, x) == Cardinality({j \in 1..Len(seq) : seq[j] = x})

\* C11: once the item is loaded, an asset without key is in no group and
\* has no option; an asset with a key is once in the group of its key and
\* in no other; the selector has one option for each key that occurs.
C11_GroupedByKey ==
    phase = "loaded" =>
        /\ NoKey \notin DOMAIN groupedAssets.groups
        /\ Occurrences(varSelect.options, NoKey) = 0
        /\ \A i \in 1..Len(item) : \A k \in DOMAIN groupedAssets.groups :
              Occurrences(groupedAssets.groups[k], item[i]) =
                 IF item[i].key = k THEN 1 ELSE 0
        /\ \A i \in 1..Len(item) :
              item[i].key # NoKey =>
                 /\ item[i].key \in DOMAIN groupedAssets.groups
                 /\ Occurrences(varSelect.options, item[i].key) = 1
        /\ \A j \in 1..Len(varSelect.options) :
              \E i \in 1..Len(item) : item[i].key = varSelect.options[j]

\* C12: once the item is loaded, each group holds its assets in the order
\* of the item, the LayerList has one layer and one url per asset of the
\* selected group in that order (layer i on url i), and the options are
\* the keys in the order first seen.
C12_OrderOfAppearance ==
    phase = "loaded" =>
        /\ \A k \in DOMAIN groupedAssets.groups : groupedAssets.groups[k] = AssetsOf(k)
        /\ HasCursor =>
              /\ Cur.urls = [i \in 1..Len(AssetsOf(varSelect.value)) |->
                                AssetsOf(varSelect.value)[i].href]
              /\ Len(Cur.layers) = Len(Cur.urls)
              /\ \A i \in 1..Len(Cur.urls) : Cur.layers[i].source = Cur.urls[i]
        /\ varSelect.options = FirstSeen(Len(item))

Recognized == {"tephra_col_mass", "SO2_col_mass", "tephra_cloud_top"}

\* the breakpoints (in tenths) and the ramp configured for each name
Breakpoints(v) ==
    CASE v = "tephra_col_mass"  -> <<1, 20, 30, 40, 50, 60, 70, 80>>
      [] v = "SO2_col_mass"     -> <<10, 50, 100, 150, 200, 250, 300, 350, 400>>
      [] v = "tephra_cloud_top" -> <<40000, 45000, 50000, 55000, 60000, 65000,
                                     70000, 75000, 80000, 85000, 90000>>
      [] OTHER                  -> <<10, 20, 30, 40, 50, 60, 70, 80, 90, 100>>

Ramp(v) == IF v \in {"tephra_col_mass", "SO2_col_mass"} THEN "RdBu" ELSE "viridis"

\* C13: the style of every layer of the LayerList built for the selected
\* variable has one stop per breakpoint of that variable: stop i is
\* breakpoint i followed by colour i of the variable's ramp sampled in as
\* many shades as there are breakpoints, and the stop values never
\* decrease; for tephra_col_mass they are 0.1, 2, 3, 4, 5, 6, 7, 8 on RdBu.
C13_StopsMatchBreakpoints ==
    HasCursor =>
        \A l \in 1..Len(Cur.layers) :
            LET stops == Cur.layers[l].style.stops
                bp    == Breakpoints(varSelect.value)
                n     == Len(bp)
            IN /\ Len(stops) = 2 * n
               /\ \A i \in 1..n :
                     /\ stops[2 * i - 1] = bp[i]
                     /\ stops[2 * i] = [ramp  |-> Ramp(varSelect.value),
                                        shade |-> i - 1, of |-> n, alpha |-> 6]
               /\ \A i \in 1..(n - 1) : stops[2 * i - 1] <= stops[2 * i + 1]
               /\ varSelect.value = "tephra_col_mass" =>
                     /\ [i \in 1..n |-> stops[2 * i - 1]] = <<1, 20, 30, 40, 50, 60, 70, 80>>
                     /\ stops[2].ramp = "RdBu"

\* the user has switched to tephra_col_mass: its LayerList carries the
\* eight stops
C13_Witness ==
    /\ ev = "change"
    /\ HasCursor
    /\ varSelect.value = "tephra_col_mass"
    /\ Len(Cur.layers) >= 1
    /\ Len(Cur.layers[1].style.stops) = 16
    /\ Cur.layers[1].style.stops[1] = 1

\* C14: whenever the selected name is not a recognized one, the empty
\* string included, the classification has run to its end and produced
\* the default: the legend is titled "Undefined" with the ten labels 1..10
\* on viridis, and so are the stops of the layers built with it.
C14_DefaultForUnrecognized ==
    phase = "loaded" /\ varSelect.value \notin Recognized =>
        /\ legend.title = "Undefined"
        /\ legend.labels = <<10, 20, 30, 40, 50, 60, 70, 80, 90, 100>>
        /\ Len(legend.swatches) = 10
        /\ \A i \in 1..Len(legend.swatches) : legend.swatches[i].ramp = "viridis"
        /\ HasCursor =>
              \A l \in 1..Len(Cur.layers) :
                  /\ Cur.layers[l].style.minVal = 10
                  /\ [i \in 1..10 |-> Cur.layers[l].style.stops[2 * i - 1]] = legend.labels
                  /\ \A i \in 1..10 : Cur.layers[l].style.stops[2 * i].ramp = "viridis"

\* the item has no keyed asset: the selector is empty, its value is the
\* empty string and the default legend was drawn
C14_Witness ==
    /\ phase = "loaded"
    /\ varSelect.options = <<>>
    /\ varSelect.value = ""
    /\ ~HasCursor
    /\ legend.title = "Undefined"
    /\ Len(legend.labels) = 10

\* the steps that enter a LayerList state: construction (on load or on a
\* variable change) and the two clicks on an existing LayerList
Enters == ev' \in {"itemLoaded", "change", "next", "prev"} /\ currentLayer' # Null

\* C15: every step that constructs, advances or retreats a LayerList adds
\* exactly one fetch to those pending, for the url at the new index, with
\* position index + 1 and total length, where 1 <= position <= total; the
\* fetch is issued in the step of the interaction itself, so in interaction
\* order; a pending fetch leaves only by resolving or rejecting, never by
\* another step; and the step in which a fetch resolves shows its url and
\* its position / total on the page.
C15_OneFetchPerEntry ==
    [][/\ Enters =>
            LET c == heap'[currentLayer']
            IN /\ 1 <= c.currentRaster + 1
               /\ c.currentRaster + 1 <= c.length
               /\ inflight' = inflight (+)
                     SetToBag({[url         |-> c.urls[c.currentRaster + 1],
                                currentStep |-> c.currentRaster,
                                totalSteps  |-> c.length]})
       /\ ~Enters /\ ev' \notin {"resolve", "reject"} => inflight' = inflight
       /\ ev' \in {"resolve", "reject"} =>
            \E f \in BagToSet(inflight) :
                /\ inflight' = inflight (-) SetToBag({f})
                /\ ev' = "resolve" =>
                      /\ display'.title[1] = f.url
                      /\ display'.step = <<f.currentStep + 1, f.totalSteps>>]_vars

\* the LayerList was advanced while the fetch of its construction was
\* pending; the fetch of the advance has resolved and is on the page, the
\* older one is still pending
C15_Witness ==
    /\ HasCursor
    /\ Ops = <<"new", "next">>
    /\ Cur.currentRaster = 1
    /\ ev = "resolve"
    /\ display.step = <<2, Cur.length>>
    /\ display.title[1] = Cur.urls[2]
    /\ inflight = SetToBag({[url |-> Cur.urls[1], currentStep |-> 0,
                             totalSteps |-> Cur.length]})

\* the urls of a LayerList
UrlsOf(c) == {c.urls[i] : i \in 1..Len(c.urls)}

\* C16: a variable change leaves every pending fetch pending and the page
\* texts as they were, and a fetch issued by a LayerList that is no longer
\* attached is published like any other when it resolves: the page then
\* shows the url and position / total of an asset that is not one of the
\* attached LayerList.
C16_StaleFetchPublished ==
    [][/\ ev' = "change" =>
            /\ \A f \in BagToSet(inflight) : CopiesIn(f, inflight') >= CopiesIn(f, inflight)
            /\ display' = display
       /\ ev' = "resolve" /\ HasCursor =>
            \E f \in BagToSet(inflight) :
                /\ inflight' = inflight (-) SetToBag({f})
                /\ f.url \notin UrlsOf(Cur) =>
                      /\ display'.title[1] = f.url
                      /\ display'.step = <<f.currentStep + 1, f.totalSteps>>
                      /\ display'.title[1] \notin UrlsOf(heap'[currentLayer'])]_vars

\* the user switched variable while the first fetch was pending and that
\* fetch has resolved since: the page shows an asset whose key is not the
\* selected variable, while the LayerList of the selected variable is the
\* one on the map
C16_Witness ==
    /\ HasCursor
    /\ ev = "resolve"
    /\ Ops = <<"new">>
    /\ [kind |-> "group", ref |-> currentLayer] \in {mapLayers[i] : i \in 1..Len(mapLayers)}
    /\ \A i \in 1..Len(Cur.urls) : item[Cur.urls[i]].key = varSelect.value
    /\ display.title # <<>>
    /\ item[display.title[1]].key # varSelect.value
    /\ display.title[1] \notin UrlsOf(Cur)

\* C17: a click while currentLayer is null changes nothing at all; a click
\* acts on the LayerList that currentLayer holds and on no other; and the
\* step that gives currentLayer a new LayerList is a load or a variable
\* change that, in the same step, has run the constructor to its end: the
\* object is on the heap and on the map at index 0 with only layer 0
\* visible and its first fetch is already among those pending, so no step
\* sees a LayerList between its construction and its first fetch.
C17_ClicksSeeWholeCursor ==
    [][/\ ev' \in {"next", "prev"} /\ currentLayer = Null =>
            UNCHANGED <<item, phase, groupedAssets, varSelect, heap, currentLayer,
                        mapLayers, inflight, display, legend, hist>>
       /\ ev' \in {"next", "prev"} /\ currentLayer # Null =>
            /\ currentLayer \in DOMAIN heap
            /\ currentLayer' = currentLayer
            /\ \A id \in DOMAIN heap \ {currentLayer} :
                  id \in DOMAIN heap' /\ heap'[id] = heap[id]
       /\ (currentLayer' # currentLayer \/ ev' \in {"itemLoaded", "change"})
             /\ currentLayer' # Null =>
            LET c == heap'[currentLayer']
                f == [url |-> c.urls[1], currentStep |-> 0, totalSteps |-> c.length]
            IN /\ ev' \in {"itemLoaded", "change"}
               /\ currentLayer' \in DOMAIN heap'
               /\ c.currentRaster = 0
               /\ VisibleSet(c) = {0}
               /\ CopiesIn(f, inflight') = CopiesIn(f, inflight) + 1
               /\ [kind |-> "group", ref |-> currentLayer'] \in
                     {mapLayers'[i] : i \in 1..Len(mapLayers')}]_vars

\* the item could not be fetched and the user clicked next: there is no
\* LayerList, nothing is pending and the page is blank
C17_Witness ==
    /\ phase = "failed"
    /\ ev = "next"
    /\ ~HasCursor
    /\ heap = [id \in {} |-> Null]
    /\ inflight = EmptyBag
    /\ display = BlankDisplay
    /\ hist = <<>>

\* the legend title configured for each name
LabelOf(v) ==
    CASE v = "tephra_col_mass"  -> "Tephra column mass [g/m<sup>2</sup>]"
      [] v = "SO2_col_mass"     -> "SO2 column mass [DU]"
      [] v = "tephra_cloud_top" -> "Tephra cloud top height [m]"
      [] OTHER                  -> "Undefined"

\* C18: after every step that leaves a LayerList attached, the legend is
\* that of the variable whose assets the LayerList shows: its title is the
\* variable's label, it has one label and one swatch per breakpoint of that
\* variable and no other, label i is stop value i and swatch i is stop
\* colour i of the style of the LayerList's layers; and a click on next or
\* previous leaves the legend as it was.
C18_LegendOfCurrentVariable ==
    [][/\ currentLayer' # Null =>
            LET c     == heap'[currentLayer']
                v     == item[c.urls[1]].key
                stops == c.layers[1].style.stops
                n     == Len(Breakpoints(v))
            IN /\ v = varSelect'.value
               /\ legend'.title = LabelOf(v)
               /\ legend'.labels = Breakpoints(v)
               /\ Len(legend'.swatches) = n
               /\ Len(stops) = 2 * n
               /\ \A i \in 1..n : /\ legend'.labels[i] = stops[2 * i - 1]
                                  /\ legend'.swatches[i] = stops[2 * i]
       /\ ev' \in {"next", "prev"} => legend' = legend]_vars

\* the page opened on tephra_col_mass, the user switched to xyz and then
\* advanced: the legend is the default one with its ten labels, nothing of
\* the eight of tephra_col_mass is left
C18_Witness ==
    /\ HasCursor
    /\ Len(varSelect.options) = 2
    /\ varSelect.options[1] = "tephra_col_mass"
    /\ varSelect.value = "xyz"
    /\ Ops = <<"new", "next">>
    /\ ev = "next"
    /\ legend.title = "Undefined"
    /\ legend.labels = <<10, 20, 30, 40, 50, 60, 70, 80, 90, 100>>
    /\ Len(legend.swatches) = 10

\* C19: a click on next or previous, when there is a LayerList, changes only
\* currentRaster and the visibility flags of that LayerList and adds to the
\* pending fetches: its length, its layers and its urls, currentLayer, the
\* layers of the map, every other object and the rest of the page are as
\* before; and in every step the length of every LayerList is the number
\* of layers it was constructed with.
C19_ClickFrame ==
    [][/\ ev' \in {"next", "prev"} /\ currentLayer # Null =>
            /\ currentLayer' = currentLayer
            /\ DOMAIN heap' = DOMAIN heap
            /\ \A id \in DOMAIN heap :
                  heap'[id] = IF id = currentLayer
                              THEN [heap[id] EXCEPT
                                       !.currentRaster = heap'[id].currentRaster,
                                       !.visible = heap'[id].visible]
                              ELSE heap[id]
            /\ Len(heap'[currentLayer].visible) = Len(heap[currentLayer].visible)
            /\ \A f \in BagToSet(inflight) : CopiesIn(f, inflight') >= CopiesIn(f, inflight)
            /\ UNCHANGED <<item, phase, groupedAssets, varSelect, mapLayers,
                           display, legend>>
       /\ \A id \in DOMAIN heap' :
            /\ heap'[id].length = Len(heap'[id].layers)
            /\ Len(heap'[id].urls) = Len(heap'[id].layers)
            /\ id \in DOMAIN heap => /\ heap'[id].layers = heap[id].layers
                                     /\ heap'[id].urls = heap[id].urls
                                     /\ heap'[id].length = heap[id].length]_vars

\* a LayerList of three layers was advanced and then retreated: it is at
\* index 0 again, still three long, and still the one on the map
C19_Witness ==
    /\ HasCursor
    /\ Ops = <<"next", "prev">>
    /\ ev = "prev"
    /\ Cur.length = 3
    /\ Len(Cur.layers) = 3
    /\ Cur.currentRaster = 0
    /\ [kind |-> "group", ref |-> currentLayer] \in {mapLayers[i] : i \in 1..Len(mapLayers)}

\* C20: the step of the load and every step of a variable change that
\* builds a LayerList leave that LayerList at index 0 with layer 0 the only
\* visible one, whatever the index of the LayerList it replaces, and add
\* one fetch, for its first url with position 1 of length, to those
\* pending.
C20_StartsAtZero ==
    [][ev' \in {"itemLoaded", "change"} /\ currentLayer' # Null =>
          LET c == heap'[currentLayer']
          IN /\ c.currentRaster = 0
             /\ VisibleSet(c) = {0}
             /\ hist' = <<[op |-> "new", idx |-> 0, vis |-> {0}]>>
             /\ c.length >= 1
             /\ inflight' = inflight (+)
                   SetToBag({[url |-> c.urls[1], currentStep |-> 0,
                              totalSteps |-> c.length]})]_vars

\* the variable was changed while the fetch that the replaced LayerList
\* issued at index 1 was still pending: the new LayerList is at index 0
C20_Witness ==
    /\ ev = "change"
    /\ HasCursor
    /\ Cur.currentRaster = 0
    /\ \E f \in BagToSet(inflight) : f.url \notin UrlsOf(Cur) /\ f.currentStep = 1
====
